---- MODULE Spec2Model ----
(***************************************************************************)
(* Model of the Medium scraper MCP server (medium_scraper_mcp/server.py,   *)
(* medium_scraper_mcp/cli.py).                                             *)
(*                                                                         *)
(* Python strings that the code slices, strips or prefixes (titles, hrefs, *)
(* page text) are sequences of one-character strings.  Exception messages  *)
(* are TLA+ strings.  A parsed document is the list of the elements the    *)
(* handlers look up in it, in document order.                              *)
(***************************************************************************)
EXTENDS Integers, Sequences, FiniteSets, TLC

VARIABLES
    driver,     \* which entry point owns the server object: "main" or "api"
    mainpc,     \* position of main(): constructed, running, stopped, exited
    session,    \* self.session: 0 is None, otherwise the index of a session
    sessions,   \* the ClientSession objects created so far and their state
    tasks,      \* the tool invocations: position, arguments, locals, outcome
    closer      \* a close() call: its position and the session it is closing

vars == <<driver, mainpc, session, sessions, tasks, closer>>

----------------------------------------------------------------------------
(* Bounds of the model.                                                    *)

NumTasks == 2          \* tool invocations per run
MaxContainers == 5     \* post-preview containers on a results page
MaxLimit == 6          \* largest limit argument tried
MaxNegLimit == 2       \* limits down to -MaxNegLimit are tried
MaxTitleLen == 102     \* longest title tried
MaxNodes == 3          \* elements of an article page

(* Program constants.                                                      *)

DefaultLimit == 10     \* limit: int = 10
SnippetLimit == 100    \* title[:100], len(title) > 100

Tasks == 1..NumTasks

----------------------------------------------------------------------------
(* Python strings as sequences of characters.                              *)

Whitespace == {" ", "\t", "\n"}

RECURSIVE lstrip(_)
lstrip(s) ==
    IF s = <<>> THEN s
    ELSE IF Head(s) \in Whitespace THEN lstrip(Tail(s)) ELSE s

RECURSIVE rstrip(_)
rstrip(s) ==
    IF s = <<>> THEN s
    ELSE IF s[Len(s)] \in Whitespace THEN rstrip(SubSeq(s, 1, Len(s) - 1)) ELSE s

\* str.strip()
strip(s) == rstrip(lstrip(s))

\* str.startswith(prefix)
startswith(s, prefix) ==
    /\ Len(prefix) <= Len(s)
    /\ SubSeq(s, 1, Len(prefix)) = prefix

\* s[:n] for n >= 0
Prefix(s, n) == SubSeq(s, 1, IF n < Len(s) THEN n ELSE Len(s))

\* A slice that ignores the limit: `for element in article_elements`.
SliceIgnoringLimit(seq, limit) == seq

\* A slice that is one short: article_elements[:limit - 1] for a positive limit.
SliceOneShort(seq, limit) ==
    IF limit > 0 THEN SubSeq(seq, 1, IF limit - 1 < Len(seq) THEN limit - 1 ELSE Len(seq))
    ELSE <<>>

\* seq[:limit], Python slice semantics: a negative limit counts from the end
SliceTo(seq, limit) ==
    IF limit >= 0 THEN Prefix(seq, limit)
    ELSE IF Len(seq) + limit > 0 THEN SubSeq(seq, 1, Len(seq) + limit)
    ELSE <<>>

\* "https://medium.com"
Origin == <<"h","t","t","p","s",":","/","/","m","e","d","i","u","m",".","c","o","m">>

Ellipsis == <<".", ".", ".">>

Unknown == <<"U","n","k","n","o","w","n">>

----------------------------------------------------------------------------
(* Search result extraction.                                               *)
(*                                                                         *)
(* A post-preview container is                                             *)
(*   [h3, h2 : [present, text], links : Seq([has_href, href, testid,       *)
(*    text]), raises : BOOLEAN]                                            *)
(* h3/h2 are the first such headings inside the container, links are its   *)
(* <a> elements in document order, raises says that a parser call inside   *)
(* the per-item try block throws.                                          *)

NoElem == [present |-> FALSE, text |-> <<>>]
Elem(text) == [present |-> TRUE, text |-> text]

\* url_elem.get('href', '')
GetHref(a) == IF a.has_href THEN a.href ELSE <<>>

\* if url.startswith('/'): url = f"https://medium.com{url}"
ResolveUrl(url) == IF startswith(url, <<"/">>) THEN Origin \o url ELSE url

\* The truncation with >= for >: a title of exactly 100 characters gets
\* the ellipsis too.
SnippetAtLimit(title) ==
    IF Len(title) >= SnippetLimit
    THEN SubSeq(title, 1, SnippetLimit) \o <<".", ".", ".">>
    ELSE title

\* title[:100] + "..." if len(title) > 100 else title
Snippet(title) ==
    IF Len(title) > SnippetLimit THEN Prefix(title, SnippetLimit) \o Ellipsis
    ELSE title

\* element.find('h3') or element.find('h2')
TitleElem(element) == IF element.h3.present THEN element.h3 ELSE element.h2

\* element.find('a', {'data-testid': 'authorName'})
AuthorElem(element) ==
    LET named == SelectSeq(element.links, LAMBDA a : a.testid = "authorName")
    IN  IF named = <<>> THEN NoElem ELSE Elem(named[1].text)

\* element.find('a')
HasUrlElem(element) == element.links # <<>>

\* if title_elem and url_elem
HasTitleAndUrl(element) == TitleElem(element).present /\ HasUrlElem(element)

\* the dictionary appended for one container
Article(element) ==
    LET title == strip(TitleElem(element).text)
        author_elem == AuthorElem(element)
    IN  [title   |-> title,
         url     |-> ResolveUrl(GetHref(element.links[1])),
         author  |-> IF author_elem.present THEN strip(author_elem.text)
                     ELSE Unknown,
         snippet |-> Snippet(title)]

\* The loop body with the try/except around the whole loop instead of one
\* item: a failing container ends the extraction with nothing.
ExtractOrAbort(articles, element) ==
    IF element.raises THEN <<>>
    ELSE IF TitleElem(element).present /\ element.links # <<>>
    THEN Append(articles, Article(element))
    ELSE articles

\* the body of the for loop: the articles list after one more container
ExtractInto(articles, element) ==
    IF element.raises THEN articles                          \* except: continue
    ELSE IF HasTitleAndUrl(element) THEN Append(articles, Article(element))
    ELSE articles

RECURSIVE ExtractAll(_, _)
ExtractAll(articles, elements) ==
    IF elements = <<>> THEN articles
    ELSE ExtractAll(ExtractInto(articles, Head(elements)), Tail(elements))

\* for element in article_elements[:limit]: ...
SearchArticles(article_elements, limit) ==
    ExtractAll(<<>>, SliceTo(article_elements, limit))

----------------------------------------------------------------------------
(* Article pages.                                                          *)
(*                                                                         *)
(* A parsed article page is the sequence of its elements in document       *)
(* order, each [tag, testid, has_datetime, datetime, text]: text is the    *)
(* string the element contains, testid its data-testid attribute ("" when  *)
(* it has none).  A comment is an element with tag "#comment".             *)

Node(tag, testid, text) ==
    [tag |-> tag, testid |-> testid, has_datetime |-> FALSE,
     datetime |-> <<>>, text |-> text]

TimeNode(has_datetime, datetime, text) ==
    [tag |-> "time", testid |-> "", has_datetime |-> has_datetime,
     datetime |-> datetime, text |-> text]

\* soup.find(tag): the elements with that tag, first match first
FindTag(doc, tag) == SelectSeq(doc, LAMBDA e : e.tag = tag)

\* soup.find(tag, {'data-testid': testid})
FindTestId(doc, tag, testid) ==
    SelectSeq(doc, LAMBDA e : e.tag = tag /\ e.testid = testid)

Untitled == <<"U","n","t","i","t","l","e","d">>

\* The lookup without the sentinel: an absent element gives the empty string.
TextOrEmpty(found) == IF found = <<>> THEN <<>> ELSE strip(found[1].text)

\* x.get_text().strip() if x else "Unknown"
TextOrUnknown(found) == IF found = <<>> THEN Unknown ELSE strip(found[1].text)

\* publish_date.get('datetime') if publish_date else None
PyNone == [is_none |-> TRUE, value |-> <<>>]
PyStr(s) == [is_none |-> FALSE, value |-> s]
DatetimeOrNone(found) ==
    IF found = <<>> THEN PyNone
    ELSE IF found[1].has_datetime THEN PyStr(found[1].datetime) ELSE PyNone

\* A get_text() that takes the contents of script and style elements too.
IsAnyString(e) == e.tag # "#comment"

\* The string classes BeautifulSoup.get_text() skips: the contents of
\* script and style elements, and comments.
IsTextString(e) == e.tag \notin {"script", "style", "#comment"}

\* soup.get_text(): the text strings of the document, concatenated
RECURSIVE get_text(_)
get_text(doc) ==
    IF doc = <<>> THEN <<>>
    ELSE (IF IsTextString(Head(doc)) THEN Head(doc).text ELSE <<>>)
         \o get_text(Tail(doc))

\* the first whitespace-free run of s, which starts with a non-space
RECURSIVE TakeWord(_)
TakeWord(s) ==
    IF s = <<>> \/ Head(s) \in Whitespace THEN <<>>
    ELSE <<Head(s)>> \o TakeWord(Tail(s))

\* text.split()
RECURSIVE split(_)
split(text) ==
    LET t == lstrip(text)
        w == TakeWord(t)
    IN  IF t = <<>> THEN <<>>
        ELSE <<w>> \o split(SubSeq(t, Len(w) + 1, Len(t)))

_estimate_word_count(doc) == Len(split(get_text(doc)))

\* the info dictionary of _get_medium_article_info
ArticleInfo(doc, url) ==
    [title        |-> TextOrUnknown(FindTag(doc, "h1")),
     author       |-> TextOrUnknown(FindTestId(doc, "a", "authorName")),
     reading_time |-> TextOrUnknown(FindTestId(doc, "span", "readingTime")),
     publish_date |-> DatetimeOrNone(FindTag(doc, "time")),
     url          |-> url,
     word_count   |-> _estimate_word_count(doc)]

----------------------------------------------------------------------------
(* Handler outcomes.                                                       *)

\* [types.TextContent(type="text", text=...)]
Return(text) ==
    [kind |-> "return", content |-> <<[type |-> "text", text |-> text]>>,
     cls |-> "", msg |-> ""]

\* raise cls(msg)
Raise(cls, msg) == [kind |-> "raise", content |-> <<>>, cls |-> cls, msg |-> msg]

NoOutcome == [kind |-> "none", content |-> <<>>, cls |-> "", msg |-> ""]

\* the text payloads
StrText(s) == [fmt |-> "str", str |-> s]
JsonText(value) == [fmt |-> "json", value |-> value]
MarkdownText(title, url, article) ==
    [fmt |-> "markdown", title |-> title, source |-> url, article |-> article]

\* The classes `except Exception` catches, among those the handlers raise.
ExceptionClasses ==
    {"Exception", "ValueError", "TypeError", "RuntimeError", "ClientError",
     "TimeoutError", "ConnectError", "HTTPStatusError"}

\* The dispatcher catching ValueError alone: `except ValueError as e`.
call_tool_except_ValueError(handled) ==
    IF handled.kind = "raise" /\ handled.cls = "ValueError"
    THEN [kind |-> "return",
          content |-> <<[type |-> "text", text |-> [fmt |-> "str", str |-> "Error: " \o handled.msg]]>>,
          cls |-> "", msg |-> ""]
    ELSE handled

\* call_tool's try/except around the handler
call_tool(handled) ==
    IF handled.kind = "raise" /\ handled.cls \in ExceptionClasses
    THEN Return(StrText("Error: " \o handled.msg))
    ELSE handled

\* the tail of _convert_medium_to_markdown, from the parsed page on
ConvertOutcome(doc, url) ==
    LET article_content == FindTag(doc, "article")
        title == FindTag(doc, "h1")
        title_text == IF title = <<>> THEN Untitled ELSE strip(title[1].text)
    IN  IF article_content = <<>>
        THEN Raise("Exception", "Could not find article content")
        ELSE Return(MarkdownText(title_text, url, article_content[1].text))

\* the tail of _get_medium_article_info, from the parsed page on
InfoOutcome(doc, url) == Return(JsonText(ArticleInfo(doc, url)))

\* the tail of _search_medium_articles, from the parsed page on
SearchOutcome(article_elements, limit) ==
    Return(JsonText(SearchArticles(article_elements, limit)))

----------------------------------------------------------------------------
(* Tool invocations.                                                       *)
(*                                                                         *)
(* An argument record is a function from argument names to values.  A      *)
(* task is one invocation of a handler, through call_tool (via =           *)
(* "call_tool") or by calling the handler method itself (via = "direct").  *)

ToolNames ==
    {"search_medium_articles", "convert_medium_to_markdown",
     "get_medium_article_info"}

\* the keyword parameters of each handler
Params(name) ==
    CASE name = "search_medium_articles" -> {"query", "tag", "limit"}
      [] name = "convert_medium_to_markdown" ->
            {"url", "include_images", "include_code"}
      [] name = "get_medium_article_info" -> {"url"}

\* the parameters without a default
Required(name) ==
    IF name = "search_medium_articles" THEN {"query"} ELSE {"url"}

\* handler(**args): the TypeError message when args does not bind, else ""
BindError(name, args) ==
    LET unexpected == DOMAIN args \ Params(name)
        missing == Required(name) \ DOMAIN args
    IN  IF unexpected # {}
        THEN name \o "() got an unexpected keyword argument '"
                  \o (CHOOSE k \in unexpected : TRUE) \o "'"
        ELSE IF missing # {}
        THEN name \o "() missing 1 required positional argument: '"
                  \o (CHOOSE k \in missing : TRUE) \o "'"
        ELSE ""

\* limit: int = 10
LimitOf(args) == IF "limit" \in DOMAIN args THEN args["limit"] ELSE DefaultLimit

NoArgs == [k \in {} |-> ""]

IdleTask ==
    [pc |-> "idle", via |-> "", name |-> "", args |-> NoArgs, sess |-> 0,
     elements |-> <<>>, doc |-> <<>>, handled |-> NoOutcome, out |-> NoOutcome]

\* the handler has returned or raised: what its caller gets
Finish(task, handled) ==
    [task EXCEPT !.pc = "done", !.handled = handled,
                 !.out = IF task.via = "call_tool" THEN call_tool(handled)
                         ELSE handled]

\* _get_session(): the session index it returns
SessionAfterGet == IF session = 0 THEN Len(sessions) + 1 ELSE session

\* A handler starts: dispatch, argument binding, and the handler's code up to
\* its first await that suspends.
Begin(t, via, name, args) ==
    LET task == [IdleTask EXCEPT !.via = via, !.name = name, !.args = args]
    IN  IF name \notin ToolNames
        THEN /\ tasks' = [tasks EXCEPT ![t] =
                            Finish(task, Raise("ValueError", "Unknown tool: " \o name))]
             /\ UNCHANGED <<session, sessions>>
        ELSE IF BindError(name, args) # ""
        THEN /\ tasks' = [tasks EXCEPT ![t] =
                            Finish(task, Raise("TypeError", BindError(name, args)))]
             /\ UNCHANGED <<session, sessions>>
        ELSE IF name = "search_medium_articles"
        THEN /\ session' = SessionAfterGet
             /\ sessions' = IF session = 0 THEN Append(sessions, "open") ELSE sessions
             /\ tasks' = [tasks EXCEPT ![t] =
                    IF sessions'[session'] = "open"
                    THEN [task EXCEPT !.pc = "get", !.sess = session']
                    ELSE Finish([task EXCEPT !.sess = session'],
                                Raise("RuntimeError", "Session is closed"))]
        ELSE /\ tasks' = [tasks EXCEPT ![t] = [task EXCEPT !.pc = "fetch"]]
             /\ UNCHANGED <<session, sessions>>

\* The server's run loop dispatches a tool call.
CallTool(t, name, args) ==
    /\ driver = "main"
    /\ mainpc = "running"
    /\ tasks[t].pc = "idle"
    /\ Begin(t, "call_tool", name, args)
    /\ UNCHANGED <<driver, mainpc, closer>>

\* The owner of the server object calls a handler method itself.
Invoke(t, name, args) ==
    /\ driver = "api"
    /\ tasks[t].pc = "idle"
    /\ name \in ToolNames
    /\ Begin(t, "direct", name, args)
    /\ UNCHANGED <<driver, mainpc, closer>>

\* async with session.get(...) as response: the request fails, or a response
\* with a status arrives
SearchResponse(t, responses) ==
    /\ tasks[t].pc = "get"
    /\ \E r \in responses : tasks' = [tasks EXCEPT ![t] =
            IF ~r.ok THEN Finish(@, Raise("ClientError", "Cannot connect to host"))
            ELSE IF r.status # 200
            THEN Finish(@, Raise("Exception", "Search failed: " \o ToString(r.status)))
            ELSE [@ EXCEPT !.pc = "read"]]
    /\ UNCHANGED <<driver, mainpc, session, sessions, closer>>

\* html = await response.text(), then the extraction
SearchBody(t, bodies) ==
    /\ tasks[t].pc = "read"
    /\ \E r \in bodies : tasks' = [tasks EXCEPT ![t] =
            IF ~r.ok THEN Finish(@, Raise("TimeoutError", ""))
            ELSE Finish([@ EXCEPT !.elements = r.elements],
                        SearchOutcome(r.elements, LimitOf(@.args)))]
    /\ UNCHANGED <<driver, mainpc, session, sessions, closer>>

\* response = await client.get(url); response.raise_for_status(), then the
\* conversion or the metadata extraction
Fetched(t, fetches) ==
    /\ tasks[t].pc = "fetch"
    /\ \E r \in fetches : tasks' = [tasks EXCEPT ![t] =
            IF ~r.ok THEN Finish(@, Raise("ConnectError", "All connection attempts failed"))
            ELSE IF r.status \notin 200..299
            THEN Finish(@, Raise("HTTPStatusError",
                                 "Client error '" \o ToString(r.status) \o "'"))
            ELSE IF @.name = "convert_medium_to_markdown"
            THEN Finish([@ EXCEPT !.doc = r.doc], ConvertOutcome(r.doc, @.args["url"]))
            ELSE Finish([@ EXCEPT !.doc = r.doc], InfoOutcome(r.doc, @.args["url"]))]
    /\ UNCHANGED <<driver, mainpc, session, sessions, closer>>

----------------------------------------------------------------------------
(* close(), run() and main().                                              *)

\* close() up to its await: `if self.session:` and the call of
\* self.session.close()
CloseBegin ==
    /\ driver = "api"
    /\ closer.pc = "idle"
    /\ IF session = 0
       THEN UNCHANGED <<sessions, closer>>
       ELSE /\ sessions' = [sessions EXCEPT ![session] = "closing"]
            /\ closer' = [pc |-> "awaiting", target |-> session]
    /\ UNCHANGED <<driver, mainpc, session, tasks>>

\* close() after its await: the session is closed, self.session = None
CloseEnd ==
    /\ closer.pc = "awaiting"
    /\ sessions' = [sessions EXCEPT ![closer.target] = "closed"]
    /\ session' = 0
    /\ closer' = [pc |-> "idle", target |-> 0]
    /\ UNCHANGED <<driver, mainpc, tasks>>

\* main(): server = MediumScraperMCPServer() is done, run() starts serving
RunStart ==
    /\ driver = "main"
    /\ mainpc = "constructed"
    /\ mainpc' = "running"
    /\ UNCHANGED <<driver, session, sessions, tasks, closer>>

\* The input stream ends and run() returns, once the handlers it started
\* have finished.
RunStop ==
    /\ mainpc = "running"
    /\ \A t \in Tasks : tasks[t].pc \in {"idle", "done"}
    /\ mainpc' = "stopped"
    /\ UNCHANGED <<driver, session, sessions, tasks, closer>>

\* main() returns after `await server.run()`; asyncio.run() ends the process
MainExit ==
    /\ mainpc = "stopped"
    /\ mainpc' = "exited"
    /\ UNCHANGED <<driver, session, sessions, tasks, closer>>

----------------------------------------------------------------------------
(* Inputs.                                                                 *)

SeqUpTo(S, n) == UNION {[1..k -> S] : k \in 0..n}

ArticleUrls == {"https://medium.com/p/1", "https://medium.com/@ann/p-2"}

\* an argument record with the given names
ArgRecord(keys, url, limit) ==
    [k \in keys |-> IF k = "limit" THEN limit ELSE IF k = "url" THEN url ELSE "python"]

\* what the network gives back for a request: no response, or a status
Responses == {[ok |-> FALSE, status |-> 0], [ok |-> TRUE, status |-> 200],
              [ok |-> TRUE, status |-> 404]}

\* ... and for reading the body of a results page
Bodies(pages) ==
    {[ok |-> FALSE, elements |-> <<>>]} \cup {[ok |-> TRUE, elements |-> p] : p \in pages}

\* ... and for fetching an article page
Fetches(docs) ==
    {[ok |-> FALSE, status |-> 0, doc |-> <<>>], [ok |-> TRUE, status |-> 404, doc |-> <<>>]}
        \cup {[ok |-> TRUE, status |-> 200, doc |-> d] : d \in docs}

\* a title of n characters
TitleOfLen(n) == [i \in 1..n |-> IF i % 2 = 1 THEN "a" ELSE "b"]

TitleLens == {0, 1, SnippetLimit - 1, SnippetLimit, SnippetLimit + 1, MaxTitleLen}

\* heading texts as they stand in the page, some with surrounding whitespace
RawTitles ==
    {TitleOfLen(n) : n \in TitleLens}
        \cup {<<" ">> \o TitleOfLen(n) \o <<"\n">> : n \in {1, SnippetLimit + 1}}
        \cup {<<"a", " ", "b">>, <<" ", "\t">>}

Link(has_href, href, testid, text) ==
    [has_href |-> has_href, href |-> href, testid |-> testid, text |-> text]

\* "/p", "//h/p", "p", "", "http://o/p", "https://medium.com/p"
HrefValues ==
    {<<"/", "p">>, <<"/", "/", "h", "/", "p">>, <<"p">>, <<>>,
     <<"h", "t", "t", "p", ":", "/", "/", "o", "/", "p">>, Origin \o <<"/", "p">>}

PlainLinks ==
    {Link(TRUE, h, "", <<"r", "e", "a", "d">>) : h \in HrefValues}
        \cup {Link(FALSE, <<>>, "", <<"r", "e", "a", "d">>)}

AuthorLink == Link(TRUE, <<"/", "@", "a">>, "authorName", <<" ", "A", "n", "n">>)

LinkLists ==
    {<<>>} \cup {<<l>> : l \in PlainLinks}
           \cup {<<AuthorLink, l>> : l \in PlainLinks}
           \cup {<<l, AuthorLink>> : l \in PlainLinks}

AllContainers ==
    [h3 : {NoElem} \cup {Elem(t) : t \in RawTitles},
     h2 : {NoElem, Elem(<<"h", "2">>)},
     links : LinkLists,
     raises : BOOLEAN]

Container(h3, h2, links, raises) ==
    [h3 |-> h3, h2 |-> h2, links |-> links, raises |-> raises]

\* the containers that the longer pages are made of
BasicContainers ==
    {Container(Elem(<<"a">>), NoElem, <<AuthorLink>>, FALSE),
     Container(NoElem, Elem(<<"b", " ">>), <<Link(TRUE, <<"/", "p">>, "", <<>>)>>, FALSE),
     Container(NoElem, NoElem, <<Link(TRUE, <<"/", "q">>, "", <<>>)>>, FALSE),
     Container(Elem(<<"c">>), NoElem, <<Link(TRUE, <<"/", "r">>, "", <<>>)>>, TRUE)}

\* results pages: the find_all('div', {'data-test-id': 'postPreview'}) list
Pages == SeqUpTo(BasicContainers, MaxContainers)

SearchArgs ==
    {ArgRecord({"query"}, "", 0), ArgRecord({"query", "tag"}, "", 0)}
        \cup {ArgRecord({"query", "limit"}, "", l) : l \in (-MaxNegLimit)..MaxLimit}

NodeKinds ==
    {Node("h1", "", <<" ", "T", " ", "t", "\n">>),
     Node("a", "authorName", <<"A", "n", "n">>),
     Node("a", "", <<"x">>),
     Node("span", "readingTime", <<"5", " ", "m">>),
     Node("span", "", <<"y", "\t", "z">>),
     TimeNode(TRUE, <<"2", "0", "2", "4">>, <<"J", "a", "n">>),
     TimeNode(FALSE, <<>>, <<"F", "e", "b">>),
     Node("p", "", <<"h", "i", " ", " ", "y", "o">>),
     Node("script", "", <<"v", "a", "r", " ", "x">>),
     Node("style", "", <<"p", " ", "{", "}">>),
     Node("#comment", "", <<"c", " ", "d">>),
     Node("article", "", <<"b", "o", "d", "y">>)}

\* article pages
Docs == SeqUpTo(NodeKinds, MaxNodes)

InfoArgs == {ArgRecord({"url"}, u, 0) : u \in ArticleUrls}

\* the inputs of the whole-server specification
SpecNames == ToolNames \cup {"delete_article"}

SpecArgs ==
    {NoArgs,
     ArgRecord({"query"}, "", 0),
     ArgRecord({"query", "limit"}, "", 1),
     ArgRecord({"query", "verbose"}, "", 0),
     ArgRecord({"url"}, "https://medium.com/p/1", 0),
     ArgRecord({"url", "include_image"}, "https://medium.com/p/1", 0)}

SpecPages ==
    {<<>>,
     <<Container(Elem(<<"a">>), NoElem, <<AuthorLink>>, FALSE),
       Container(NoElem, NoElem, <<AuthorLink>>, FALSE)>>}

SpecDocs ==
    {<<Node("p", "", <<"h", "i">>)>>,
     <<Node("h1", "", <<"T">>), Node("article", "", <<"b", "o", "d", "y">>)>>}

----------------------------------------------------------------------------
(* Specifications.                                                         *)

Init ==
    /\ driver \in {"main", "api"}
    /\ mainpc = "constructed"
    /\ session = 0
    /\ sessions = <<>>
    /\ tasks = [t \in Tasks |-> IdleTask]
    /\ closer = [pc |-> "idle", target |-> 0]

\* The whole server: tool calls dispatched by the run loop, or handler
\* methods and close() called by the owner of the object, in any interleaving.
Next ==
    \/ RunStart
    \/ RunStop
    \/ MainExit
    \/ \E t \in Tasks, name \in SpecNames, args \in SpecArgs : CallTool(t, name, args)
    \/ \E t \in Tasks, name \in ToolNames, args \in SpecArgs : Invoke(t, name, args)
    \/ \E t \in Tasks : SearchResponse(t, Responses)
    \/ \E t \in Tasks : SearchBody(t, Bodies(SpecPages))
    \/ \E t \in Tasks : Fetched(t, Fetches(SpecDocs))
    \/ CloseBegin
    \/ CloseEnd

Spec == Init /\ [][Next]_vars

\* One direct search call, over results pages of up to MaxContainers
\* containers and over every shape of a single container, and all limits.
InitSearch == Init /\ driver = "api"

NextSearch ==
    \/ \E args \in SearchArgs : Invoke(1, "search_medium_articles", args)
    \/ SearchResponse(1, Responses)
    \/ SearchBody(1, Bodies(Pages))
    \/ SearchBody(1, Bodies({<<c>> : c \in AllContainers}))

SpecSearch == InitSearch /\ [][NextSearch]_vars

\* One direct info call, over all article pages.
InitInfo == Init /\ driver = "api"

NextInfo ==
    \/ \E args \in InfoArgs : Invoke(1, "get_medium_article_info", args)
    \/ Fetched(1, Fetches(Docs))

SpecInfo == InitInfo /\ [][NextInfo]_vars

----------------------------------------------------------------------------
(* Vocabulary of the properties.                                           *)

Min(a, b) == IF a < b THEN a ELSE b

\* task t is a search that has returned its list of summaries
SearchReturned(t) ==
    /\ tasks[t].pc = "done"
    /\ tasks[t].name = "search_medium_articles"
    /\ tasks[t].handled.kind = "return"

\* the summaries a returned search carries
Summaries(t) == tasks[t].handled.content[1].text.value

\* the heading a container's title is read from, if it has one
HasHeading(e) == e.h3.present \/ e.h2.present
HeadingText(e) == IF e.h3.present THEN e.h3.text ELSE e.h2.text

\* a container from which a summary can be extracted
Extractable(e) == ~e.raises /\ HasHeading(e) /\ e.links # <<>>

\* summary s is the summary of container e
ComesFrom(s, e) == Extractable(e) /\ s.title = strip(HeadingText(e))

\* the summaries are, in order, summaries of a subsequence of the containers
RECURSIVE Embeds(_, _)
Embeds(summaries, elements) ==
    IF summaries = <<>> THEN TRUE
    ELSE IF elements = <<>> THEN FALSE
    ELSE IF ComesFrom(Head(summaries), Head(elements))
    THEN Embeds(Tail(summaries), Tail(elements))
    ELSE Embeds(summaries, Tail(elements))

\* the number of containers the loop looks at
NumExamined(n, limit) ==
    IF limit >= 0 THEN Min(limit, n) ELSE IF n + limit > 0 THEN n + limit ELSE 0

\* the positions, among the first m containers, of the extractable ones
Good(elements, m) == {i \in 1..m : Extractable(elements[i])}

\* the position of the k-th extractable container
KthGood(elements, m, k) ==
    CHOOSE i \in Good(elements, m) :
        Cardinality({j \in Good(elements, m) : j <= i}) = k

----------------------------------------------------------------------------
(* Properties of the search result extraction (SpecSearch).                *)

\* C2, as stated: for every integer limit, a returned search carries at most
\* limit summaries, in the relative order of their containers.
C2_AtMostLimitForEveryInteger ==
    \A t \in Tasks : SearchReturned(t) =>
        /\ Len(Summaries(t)) <= LimitOf(tasks[t].args)
        /\ Embeds(Summaries(t), tasks[t].elements)

\* C2, amended: for every limit >= 0 a returned search carries at most limit
\* summaries; for every integer limit the summaries are in the relative
\* order of their containers.
C2_AtMostLimitWhenNonNegative ==
    \A t \in Tasks : SearchReturned(t) =>
        /\ LimitOf(tasks[t].args) >= 0
                => Len(Summaries(t)) <= LimitOf(tasks[t].args)
        /\ Embeds(Summaries(t), tasks[t].elements)

\* The cap takes effect: a page with more extractable containers than the
\* limit, of which exactly limit (at least 2) are returned.
C2_Witness ==
    \E t \in Tasks :
        /\ SearchReturned(t)
        /\ LimitOf(tasks[t].args) >= 2
        /\ Cardinality(Good(tasks[t].elements, Len(tasks[t].elements)))
                > LimitOf(tasks[t].args)
        /\ Len(Summaries(t)) = LimitOf(tasks[t].args)

\* C3, as stated: for a limit L >= 0 and N containers a returned search
\* carries exactly min(L, N) summaries, the k-th for the k-th container.
C3_ExactlyMinOfLimitAndContainers ==
    \A t \in Tasks : SearchReturned(t) /\ LimitOf(tasks[t].args) >= 0 =>
        LET m == Min(LimitOf(tasks[t].args), Len(tasks[t].elements))
        IN  /\ Len(Summaries(t)) = m
            /\ \A k \in 1..m : ComesFrom(Summaries(t)[k], tasks[t].elements[k])

\* C3, amended: for a limit L >= 0 and N containers a returned search carries
\* one summary for each of the first min(L, N) containers that has a heading
\* and a link and whose extraction does not fail, in document order: exactly
\* min(L, N) when all of them do, and the empty list when N = 0.
C3_OnePerExtractableAmongFirstMin ==
    \A t \in Tasks : SearchReturned(t) /\ LimitOf(tasks[t].args) >= 0 =>
        LET m == Min(LimitOf(tasks[t].args), Len(tasks[t].elements))
            good == Good(tasks[t].elements, m)
        IN  /\ Len(Summaries(t)) = Cardinality(good)
            /\ Embeds(Summaries(t), SubSeq(tasks[t].elements, 1, m))
            /\ good = 1..m =>
                   /\ Len(Summaries(t)) = m
                   /\ \A k \in 1..m :
                          ComesFrom(Summaries(t)[k], tasks[t].elements[k])
            /\ tasks[t].elements = <<>> => Summaries(t) = <<>>

\* limit = 3 on a page with 5 containers, all extractable, returned 3.
C3_Witness ==
    \E t \in Tasks :
        /\ SearchReturned(t)
        /\ LimitOf(tasks[t].args) = 3
        /\ Len(tasks[t].elements) = 5
        /\ Good(tasks[t].elements, 5) = 1..5
        /\ Len(Summaries(t)) = 3

\* C4: the url of every summary starts with "https://medium.com".
C4_UrlStartsWithOrigin ==
    \A t \in Tasks : SearchReturned(t) =>
        \A k \in 1..Len(Summaries(t)) : startswith(Summaries(t)[k].url, Origin)

\* C5: the snippet of every summary has at most 103 characters; it is the
\* title when the title has at most 100 characters, and otherwise the first
\* 100 characters of the title followed by "...".
C5_SnippetIsTruncatedTitle ==
    \A t \in Tasks : SearchReturned(t) =>
        \A k \in 1..Len(Summaries(t)) :
            LET title == Summaries(t)[k].title
                snippet == Summaries(t)[k].snippet
            IN  /\ Len(snippet) <= SnippetLimit + 3
                /\ Len(title) <= SnippetLimit => snippet = title
                /\ Len(title) > SnippetLimit =>
                       /\ Len(snippet) = SnippetLimit + 3
                       /\ \A i \in 1..SnippetLimit : snippet[i] = title[i]
                       /\ \A i \in (SnippetLimit + 1)..(SnippetLimit + 3) :
                              snippet[i] = "."

\* A summary whose title is longer than 100 characters, truncated.
C5_Witness ==
    \E t \in Tasks :
        /\ SearchReturned(t)
        /\ \E k \in 1..Len(Summaries(t)) :
               /\ Len(Summaries(t)[k].title) > SnippetLimit
               /\ Len(Summaries(t)[k].snippet) = SnippetLimit + 3

\* C8: a container whose extraction fails, or that lacks a heading or a
\* link, is skipped alone: the search returns, and its summaries are exactly
\* those of the extractable containers among the examined ones, in order.
C8_SkipsOnlyTheFailedContainers ==
    \A t \in Tasks :
        /\ tasks[t].pc = "done" /\ tasks[t].name = "search_medium_articles"
           /\ tasks[t].elements # <<>>
                => tasks[t].handled.kind = "return"
        /\ SearchReturned(t) =>
            LET m == NumExamined(Len(tasks[t].elements), LimitOf(tasks[t].args))
                good == Good(tasks[t].elements, m)
            IN  /\ Len(Summaries(t)) = Cardinality(good)
                /\ \A k \in 1..Cardinality(good) :
                       Summaries(t)[k]
                           = Article(tasks[t].elements[KthGood(tasks[t].elements, m, k)])

\* A failing container and one without a heading among the examined
\* ones, with extractable containers before and after them.
C8_Witness ==
    \E t \in Tasks :
        /\ SearchReturned(t)
        /\ LET m == NumExamined(Len(tasks[t].elements), LimitOf(tasks[t].args))
           IN  \E i, j, l \in 1..m :
                   /\ i < j /\ j < l
                   /\ Extractable(tasks[t].elements[i])
                   /\ tasks[t].elements[j].raises
                   /\ Extractable(tasks[t].elements[l])
                   /\ \E n \in 1..m : ~HasHeading(tasks[t].elements[n])
        /\ Len(Summaries(t)) >= 2

----------------------------------------------------------------------------
(* Properties of the metadata extraction (SpecInfo).                       *)

\* task t is an info call whose page was fetched
InfoFetched(t) ==
    /\ tasks[t].pc = "done"
    /\ tasks[t].name = "get_medium_article_info"
    /\ tasks[t].handled.cls \notin {"TypeError", "ConnectError", "HTTPStatusError"}

\* the record a returned info call carries
InfoOf(t) == tasks[t].handled.content[1].text.value

\* the positions of the elements with a tag and a data-testid
Positions(doc, tag, testid) ==
    {i \in 1..Len(doc) : doc[i].tag = tag /\ doc[i].testid = testid}

\* the first of a non-empty set of positions
First(positions) == CHOOSE i \in positions : \A j \in positions : i <= j

\* a string field: "Unknown" when its element is absent, else the stripped
\* text of the first such element
FieldIs(value, doc, positions) ==
    IF positions = {} THEN value = Unknown
    ELSE value = strip(doc[First(positions)].text)

\* C6: whichever of the h1, author link, reading-time span, time element and
\* datetime attribute are absent, a fetched info call returns a record:
\* absent string fields are "Unknown", publish_date is null without a time
\* element, present elements give their value, url is the requested URL.
C6_MissingFieldsDegradeToSentinels ==
    \A t \in Tasks : InfoFetched(t) =>
        /\ tasks[t].handled.kind = "return"
        /\ LET doc == tasks[t].doc
               info == InfoOf(t)
               times == {i \in 1..Len(doc) : doc[i].tag = "time"}
               h1s == {i \in 1..Len(doc) : doc[i].tag = "h1"}
           IN  /\ FieldIs(info.title, doc, h1s)
               /\ FieldIs(info.author, doc, Positions(doc, "a", "authorName"))
               /\ FieldIs(info.reading_time, doc,
                          Positions(doc, "span", "readingTime"))
               /\ times = {} => info.publish_date.is_none
               /\ times # {} /\ doc[First(times)].has_datetime =>
                      /\ ~info.publish_date.is_none
                      /\ info.publish_date.value = doc[First(times)].datetime
               /\ times # {} /\ ~doc[First(times)].has_datetime =>
                      info.publish_date.is_none
               /\ info.url = tasks[t].args["url"]

\* A page with a title and an author but no time element and no reading
\* time: publish_date is null, reading_time "Unknown", the rest populated.
C6_Witness ==
    \E t \in Tasks :
        /\ InfoFetched(t)
        /\ tasks[t].handled.kind = "return"
        /\ \A i \in 1..Len(tasks[t].doc) : tasks[t].doc[i].tag # "time"
        /\ \E i \in 1..Len(tasks[t].doc) : tasks[t].doc[i].tag = "h1"
        /\ InfoOf(t).publish_date.is_none
        /\ InfoOf(t).reading_time = Unknown
        /\ InfoOf(t).title = <<"T", " ", "t">>
        /\ InfoOf(t).author = <<"A", "n", "n">>

\* the text of the page outside script and style elements (and comments)
RECURSIVE VisibleText(_)
VisibleText(doc) ==
    IF doc = <<>> THEN <<>>
    ELSE VisibleText(SubSeq(doc, 1, Len(doc) - 1))
            \o (IF doc[Len(doc)].tag \in {"script", "style", "#comment"}
                THEN <<>> ELSE doc[Len(doc)].text)

\* the number of whitespace-delimited tokens: the positions where one starts
TokenCount(text) ==
    Cardinality({i \in 1..Len(text) :
                    /\ text[i] \notin Whitespace
                    /\ i = 1 \/ text[i - 1] \in Whitespace})

\* C7: word_count is the number of whitespace-delimited tokens of the
\* visible text of the page; it is never negative, and 0 for an empty page.
C7_WordCountIsTokenCount ==
    \A t \in Tasks : InfoFetched(t) /\ tasks[t].handled.kind = "return" =>
        /\ InfoOf(t).word_count = TokenCount(VisibleText(tasks[t].doc))
        /\ InfoOf(t).word_count >= 0
        /\ tasks[t].doc = <<>> => InfoOf(t).word_count = 0

\* A page with a script and text around it: the script's words are not
\* counted, the others are.
C7_Witness ==
    \E t \in Tasks :
        /\ InfoFetched(t)
        /\ tasks[t].handled.kind = "return"
        /\ \E i \in 1..Len(tasks[t].doc) : tasks[t].doc[i].tag = "script"
        /\ \E i \in 1..Len(tasks[t].doc) : tasks[t].doc[i].tag = "p"
        /\ InfoOf(t).word_count >= 2

----------------------------------------------------------------------------
(* Properties of the whole server (Spec).                                  *)

\* C1: a call through call_tool always ends in a normal response; when the
\* handler raised an error with message m, the response is the one text
\* segment "Error: " followed by m.
C1_CallToolNeverRaises ==
    \A t \in Tasks : tasks[t].pc = "done" /\ tasks[t].via = "call_tool" =>
        /\ tasks[t].out.kind = "return"
        /\ Len(tasks[t].out.content) = 1
        /\ tasks[t].out.content[1].type = "text"
        /\ tasks[t].handled.kind = "raise" =>
               tasks[t].out.content[1].text
                   = [fmt |-> "str", str |-> "Error: " \o tasks[t].handled.msg]
        /\ tasks[t].handled.kind = "return" =>
               tasks[t].out.content = tasks[t].handled.content

\* A convert call on a page without an article container answered with
\* "Error: Could not find article content", next to a call with a missing
\* argument answered with an error too.
C1_Witness ==
    \E t, u \in Tasks :
        /\ tasks[t].pc = "done" /\ tasks[t].via = "call_tool"
        /\ tasks[t].name = "convert_medium_to_markdown"
        /\ \A i \in 1..Len(tasks[t].doc) : tasks[t].doc[i].tag # "article"
        /\ tasks[t].out.kind = "return"
        /\ tasks[t].out.content[1].text
               = [fmt |-> "str", str |-> "Error: Could not find article content"]
        /\ tasks[u].pc = "done" /\ tasks[u].via = "call_tool"
        /\ tasks[u].handled.cls = "TypeError"
        /\ tasks[u].out.kind = "return"

\* C9: once main() has ended, every session that was created has been
\* closed and self.session is None.
C9_ShutdownClosesSession ==
    driver = "main" /\ mainpc = "exited" =>
        /\ session = 0
        /\ \A i \in 1..Len(sessions) : sessions[i] = "closed"

\* C10: no search is using, or has been handed, a session that close() has
\* closed or is closing.
C10_SessionNeverTornDownMidRequest ==
    \A t \in Tasks :
        /\ tasks[t].pc \in {"get", "read"} => sessions[tasks[t].sess] = "open"
        /\ ~(tasks[t].pc = "done" /\ tasks[t].handled.cls = "RuntimeError")

====
